---- MODULE Spec2Model ----
(***************************************************************************)
(* Correlation and deduplication engine of pass-mate-backend:              *)
(* CorrelationService (findCorrelations, findPotentialMatches, merge),     *)
(* ReceiptService.processReceipt and the FirebaseService record store.     *)
(*                                                                         *)
(* Timestamps are whole seconds of local time counted from 1 January       *)
(* 00:00:00 of a non-leap year. Amounts are whole currency units.          *)
(* A falsy JavaScript string (undefined, null, '') is the empty string,    *)
(* a missing amount (undefined, null) is NoAmount.                         *)
(***************************************************************************)
EXTENDS Integers, Sequences, FiniteSets, TLC

VARIABLES
    store,      \* Firestore collection 'transactions': document id -> document
    nextId,     \* number of documents created so far (ids are 1, 2, ...)
    now,        \* logical clock behind new Date().toISOString()
    pc,         \* position of each processReceipt invocation
    inp,        \* the input (inputData and its extraction) of each invocation
    txn,        \* newTransaction of the running findCorrelations call
    cands,      \* potentialMatches read by the running findCorrelations call
    best,       \* bestMatch (position in potentialMatches) and bestConfidence
    merge,      \* mergeTransactions in progress: winner id, mergedData, analysis
    corr,       \* what the last findCorrelations call of the invocation returned
    result,     \* what processReceipt returned to its caller
    faults,     \* store / oracle faults injected so far
    strong,     \* every oracle answer so far judged every candidate correlated >= 90
    failed,     \* what went wrong in the last findCorrelations call of the invocation
    call        \* last call of a pure helper: its arguments and what it returned

vars == <<store, nextId, now, pc, inp, txn, cands, best, merge, corr, result,
          faults, strong, failed, call>>

sysVars == <<store, nextId, now, pc, inp, txn, cands, best, merge, corr, result,
             faults, strong, failed>>

----------------------------------------------------------------------------
(* Program constants *)

amountTolerancePct == 5

timeWindowHours == 1

timeWindowDays == 1

ConfidenceThreshold == 70

QueryLimit == 50

(* Bounds of the model *)

MaxFaults == 1

----------------------------------------------------------------------------
(* Arithmetic and calendar helpers (JavaScript Math and Date) *)

Abs(x) == IF x < 0 THEN 0 - x ELSE x

Max(a, b) == IF a >= b THEN a ELSE b

Min(a, b) == IF a <= b THEN a ELSE b

SecondsPerHour == 60 * 60

SecondsPerDay == 24 * SecondsPerHour

\* Timestamp of day `day` of month `month` (1..3) at hh:mm:ss.
At(month, day, hh, mm, ss) ==
    LET before == CASE month = 1 -> 0 [] month = 2 -> 31 [] OTHER -> 31 + 28
    IN  (before + day - 1) * SecondsPerDay + hh * SecondsPerHour + mm * 60 + ss

\* Date.prototype.getDate(): the day of the month, 1..31.
getDate(t) ==
    LET d == t \div SecondsPerDay
    IN  IF d < 31 THEN d + 1
        ELSE IF d < 31 + 28 THEN d - 31 + 1
        ELSE d - (31 + 28) + 1

getHours(t) == (t % SecondsPerDay) \div SecondsPerHour

getMinutes(t) == (t % SecondsPerHour) \div 60

getSeconds(t) == t % 60

\* String.prototype.toLowerCase() on the item names of the model.
toLowerCase(s) ==
    CASE s = "Latte" -> "latte"
      [] s = "LATTE" -> "latte"
      [] s = "Muffin" -> "muffin"
      [] OTHER -> s

\* JavaScript truthiness of a string / of a number.
TruthyStr(s) == s # ""

NoAmount == 0 - 1

TruthyNum(n) == n # 0 /\ n # NoAmount

----------------------------------------------------------------------------
(* CorrelationService: matching predicates *)

hasPreciseTime(timestamp) ==
    ~(getHours(timestamp) = 0 /\ getMinutes(timestamp) = 0 /\ getSeconds(timestamp) = 0)

\* A variant that takes the tolerance from the first amount alone.
isAmountMatchOfFirst(amount1, amount2) ==
    LET tolerance100  == amount1 * amountTolerancePct
        difference100 == Abs(amount1 - amount2) * 100
    IN  difference100 <= tolerance100

\* A variant that takes the tolerance from the smaller amount.
isAmountMatchOfMin(amount1, amount2) ==
    LET tolerance100  == Min(amount1, amount2) * amountTolerancePct
        difference100 == Abs(amount1 - amount2) * 100
    IN  difference100 <= tolerance100

\* tolerance and difference are kept in hundredths so that * 0.05 stays exact.
isAmountMatch(amount1, amount2) ==
    LET tolerance100  == Max(amount1, amount2) * amountTolerancePct
        difference100 == Abs(amount1 - amount2) * 100
    IN  difference100 <= tolerance100

isTimeMatch(timestamp1, timestamp2) ==
    IF hasPreciseTime(timestamp1) /\ hasPreciseTime(timestamp2)
    THEN \* diffHours <= timeWindowHours, in seconds
         Abs(timestamp1 - timestamp2) <= timeWindowHours * SecondsPerHour
    ELSE LET diffDays == Abs(getDate(timestamp1) - getDate(timestamp2))
         IN  diffDays <= timeWindowDays

calculateTimeWindow(timestamp) ==
    IF hasPreciseTime(timestamp)
    THEN [start |-> timestamp - timeWindowHours * SecondsPerHour,
          end   |-> timestamp + timeWindowHours * SecondsPerHour]
    ELSE [start |-> timestamp - timeWindowDays * SecondsPerDay,
          end   |-> timestamp + timeWindowDays * SecondsPerDay]

----------------------------------------------------------------------------
(* Documents, transactions and verdicts *)

NoId == 0

NoTimestamp == 0 - 1

NoCorrelationInfo ==
    [correlation_type |-> "", confidence |-> 0, merged_transaction_id |-> NoId]

\* The source entry pushed for an inputData ({input_type, uri}; the added_at
\* stamp of a merged entry is not part of its identity).
SourceOf(inputData) == [input_type |-> inputData.type, uri |-> inputData.uri]

\* A variant of the default verdict that presumes a duplicate.
PresumedDuplicate ==
    [is_correlated |-> TRUE, confidence |-> 100,
     correlation_type |-> "duplicate", recommended_action |-> "merge"]

DefaultVerdict ==
    [is_correlated |-> FALSE, confidence |-> 0,
     correlation_type |-> "unrelated", recommended_action |-> "keep_separate"]

----------------------------------------------------------------------------
(* FirebaseService: the record store *)

\* docSnap.exists()
Exists(st, id) == id \in DOMAIN st

\* { id: doc.id, ...doc.data() }
Snapshot(st, id) == [id |-> id] @@ st[id]

\* All orders a query may return the documents `ids` in: orderBy('timestamp',
\* 'desc'); documents with equal timestamps come in the order of their
\* (random, auto-generated) document names, i.e. in any order.
OrderedByTimestampDesc(st, ids) ==
    LET n == Cardinality(ids)
    IN  { s \in [1..n -> ids] :
            /\ \A i, j \in 1..n : i # j => s[i] # s[j]
            /\ \A i, j \in 1..n : i < j => st[s[i]].timestamp >= st[s[j]].timestamp }

\* A variant of the query without the status filter.
getUserTransactionsAnyStatus(st, userId, filters) ==
    LET hits == { id \in DOMAIN st :
                    /\ st[id].userId = userId
                    /\ st[id].timestamp >= filters.startDate
                    /\ st[id].timestamp <= filters.endDate }
    IN  { [i \in 1..Min(filters.limit, Len(s)) |-> Snapshot(st, s[i])] :
            s \in OrderedByTimestampDesc(st, hits) }

\* getUserTransactions(userId, {startDate, endDate, limit}): the set of possible
\* result lists. No status filter is passed, so status defaults to 'active'.
getUserTransactions(st, userId, filters) ==
    LET hits == { id \in DOMAIN st :
                    /\ st[id].userId = userId
                    /\ st[id].timestamp >= filters.startDate
                    /\ st[id].timestamp <= filters.endDate
                    /\ st[id].status = "active" }
    IN  { [i \in 1..Min(filters.limit, Len(s)) |-> Snapshot(st, s[i])] :
            s \in OrderedByTimestampDesc(st, hits) }

\* saveTransaction: addDoc of { ...transactionData, created_at, updated_at, status }.
saveTransaction(st, id, transactionData, time) ==
    (id :> ([updated_at |-> time, status |-> "active"] @@ transactionData)) @@ st

\* updateDoc(docRef, { ...updateData, updated_at }): the named fields are
\* overwritten, the others are kept.
updateTransaction(st, transactionId, updateData, time) ==
    LET data == [updated_at |-> time] @@ updateData
    IN  [st EXCEPT ![transactionId] =
            [f \in DOMAIN @ |-> IF f \in DOMAIN data THEN data[f] ELSE @[f]]]

\* A variant of the removal that only marks the document deleted.
markDeleted(st, transactionId) ==
    IF transactionId \in DOMAIN st
    THEN [st EXCEPT ![transactionId].status = "deleted"]
    ELSE st

\* deleteDoc(docRef): the document is removed; deleting a missing one succeeds.
deleteDoc(st, transactionId) ==
    [id \in DOMAIN st \ {transactionId} |-> st[id]]

----------------------------------------------------------------------------
(* CorrelationService: candidate search *)

\* A variant of the filter loop that does not look at correlation_id.
FilterMatchesAnyCorrelation(newTransaction, recentTransactions) ==
    LET Keep(transaction) ==
            /\ transaction.id # newTransaction.id
            /\ isAmountMatch(newTransaction.amount, transaction.amount)
            /\ isTimeMatch(newTransaction.timestamp, transaction.timestamp)
    IN  SelectSeq(recentTransactions, Keep)

\* A variant of the filter loop without "Skip the same transaction".
FilterMatchesOwnRecord(newTransaction, recentTransactions) ==
    LET Keep(transaction) ==
            /\ ~(TruthyStr(transaction.correlation_id)
                    \/ TruthyStr(newTransaction.correlation_id))
            /\ isAmountMatch(newTransaction.amount, transaction.amount)
            /\ isTimeMatch(newTransaction.timestamp, transaction.timestamp)
    IN  SelectSeq(recentTransactions, Keep)

\* The filter loop of findPotentialMatches over the query result.
FilterMatches(newTransaction, recentTransactions) ==
    LET Keep(transaction) ==
            /\ transaction.id # newTransaction.id
            /\ ~(TruthyStr(transaction.correlation_id)
                    \/ TruthyStr(newTransaction.correlation_id))
            /\ isAmountMatch(newTransaction.amount, transaction.amount)
            /\ isTimeMatch(newTransaction.timestamp, transaction.timestamp)
    IN  SelectSeq(recentTransactions, Keep)

\* findPotentialMatches(newTransaction, userId): the possible candidate lists.
findPotentialMatches(st, newTransaction, userId) ==
    LET timeWindow == calculateTimeWindow(newTransaction.timestamp)
    IN  { FilterMatches(newTransaction, recentTransactions) :
            recentTransactions \in getUserTransactions(st, userId,
                [startDate |-> timeWindow.start, endDate |-> timeWindow.end,
                 limit |-> QueryLimit]) }

----------------------------------------------------------------------------
(* CorrelationService: oracle gateway and decision *)

\* "Set defaults for each correlation": x = x || default on the four fields. A
\* missing or empty string is "", a missing number is NoAmount; is_correlated is
\* a boolean in the model, on which || false changes nothing. Other fields of
\* the verdict (transaction_index, reason) are left as they are.
SetDefaults(correlation) ==
    [correlation EXCEPT
        !.confidence = IF TruthyNum(@) THEN @ ELSE 0,
        !.correlation_type = IF TruthyStr(@) THEN @ ELSE "unrelated",
        !.recommended_action = IF TruthyStr(@) THEN @ ELSE "keep_separate"]

\* A variant without the catch: unparsable text gives no verdicts at all.
parseWithoutFallback(response, expectedCount) ==
    IF ~response.parsable
    THEN <<>>
    ELSE [i \in 1..Max(expectedCount, Len(response.correlations)) |->
            IF i <= Len(response.correlations)
            THEN SetDefaults(response.correlations[i]) ELSE DefaultVerdict]

\* parseMultipleCorrelationResponse(responseText, expectedCount). The response is
\* [parsable, correlations]: unparsable text gives expectedCount defaults, a
\* short list is padded with defaults, a long list is returned as it is.
parseMultipleCorrelationResponse(response, expectedCount) ==
    IF ~response.parsable
    THEN [i \in 1..expectedCount |-> DefaultVerdict]
    ELSE [i \in 1..Max(expectedCount, Len(response.correlations)) |->
            IF i <= Len(response.correlations)
            THEN SetDefaults(response.correlations[i]) ELSE DefaultVerdict]

\* analyzeMultipleCorrelationsWithGemini(newTransaction, potentialMatches), given
\* what callGemini did: it threw (error or timeout), or it answered with a
\* response text. The catch gives every candidate the default verdict.
analyzeMultipleCorrelationsWithGemini(answer, potentialMatches) ==
    IF answer.threw
    THEN [i \in 1..Len(potentialMatches) |-> DefaultVerdict]
    ELSE parseMultipleCorrelationResponse(answer.response, Len(potentialMatches))

\* The loop of findCorrelations over potentialMatches: after looking at the first
\* k candidates, [index |-> the best one's position (0: bestMatch is null),
\* confidence |-> bestConfidence].
RECURSIVE BestAfter(_, _)
BestAfter(correlations, k) ==
    IF k = 0 THEN [index |-> 0, confidence |-> 0]
    ELSE LET prev == BestAfter(correlations, k - 1)
         IN  IF /\ k <= Len(correlations)
                /\ correlations[k].is_correlated
                /\ correlations[k].confidence > prev.confidence
             THEN [index |-> k, confidence |-> correlations[k].confidence]
             ELSE prev

\* A variant of the loop that does not look at is_correlated.
RECURSIVE BestAfterAnyVerdict(_, _)
BestAfterAnyVerdict(correlations, k) ==
    IF k = 0 THEN [index |-> 0, confidence |-> 0]
    ELSE LET prev == BestAfterAnyVerdict(correlations, k - 1)
         IN  IF /\ k <= Len(correlations)
                /\ correlations[k].confidence > prev.confidence
             THEN [index |-> k, confidence |-> correlations[k].confidence]
             ELSE prev

SelectBestAnyVerdict(potentialMatches, correlations) ==
    BestAfterAnyVerdict(correlations, Len(potentialMatches))

\* A variant of the loop that compares with >= (the last of several ties wins).
RECURSIVE BestAfterLastWins(_, _)
BestAfterLastWins(correlations, k) ==
    IF k = 0 THEN [index |-> 0, confidence |-> 0]
    ELSE LET prev == BestAfterLastWins(correlations, k - 1)
         IN  IF /\ k <= Len(correlations)
                /\ correlations[k].is_correlated
                /\ correlations[k].confidence >= prev.confidence
                /\ correlations[k].confidence > 0
             THEN [index |-> k, confidence |-> correlations[k].confidence]
             ELSE prev

SelectBestLastWins(potentialMatches, correlations) ==
    BestAfterLastWins(correlations, Len(potentialMatches))

SelectBest(potentialMatches, correlations) ==
    BestAfter(correlations, Len(potentialMatches))

\* A variant of the threshold test that compares with >.
IsActionableAbove(b) == b.index # 0 /\ b.confidence > ConfidenceThreshold

\* if (bestMatch && bestConfidence >= 70)
IsActionable(b) == b.index # 0 /\ b.confidence >= ConfidenceThreshold

----------------------------------------------------------------------------
(* CorrelationService: merge resolver *)

RECURSIVE AppendUnique(_, _, _)
AppendUnique(merged, newItems, k) ==
    IF k > Len(newItems) THEN merged
    ELSE LET newItem == newItems[k]
             exists  == \E i \in 1..Len(merged) :
                            toLowerCase(merged[i].name) = toLowerCase(newItem.name)
         IN  AppendUnique(IF exists THEN merged ELSE Append(merged, newItem),
                          newItems, k + 1)

\* A variant of mergeItems that compares the names as they are written.
RECURSIVE AppendUniqueExactCase(_, _, _)
AppendUniqueExactCase(merged, newItems, k) ==
    IF k > Len(newItems) THEN merged
    ELSE LET newItem == newItems[k]
             exists  == \E i \in 1..Len(merged) : merged[i].name = newItem.name
         IN  AppendUniqueExactCase(IF exists THEN merged ELSE Append(merged, newItem),
                                   newItems, k + 1)

mergeItemsExactCase(existingItems, newItems) ==
    IF Len(existingItems) = 0 THEN newItems
    ELSE IF Len(newItems) = 0 THEN existingItems
    ELSE AppendUniqueExactCase(existingItems, newItems, 1)

mergeItems(existingItems, newItems) ==
    IF Len(existingItems) = 0 THEN newItems
    ELSE IF Len(newItems) = 0 THEN existingItems
    ELSE AppendUnique(existingItems, newItems, 1)

\* A variant that takes the incoming timestamp whenever it is precise.
chooseIncomingIfPrecise(existing, newTimestamp) ==
    IF existing = NoTimestamp THEN newTimestamp
    ELSE IF newTimestamp = NoTimestamp THEN existing
    ELSE IF hasPreciseTime(newTimestamp)
         THEN newTimestamp
         ELSE existing

chooseBetterTimestamp(existing, newTimestamp) ==
    IF existing = NoTimestamp THEN newTimestamp
    ELSE IF newTimestamp = NoTimestamp THEN existing
    ELSE IF hasPreciseTime(newTimestamp) /\ ~hasPreciseTime(existing)
         THEN newTimestamp
         ELSE existing

\* A variant of mergedData that keeps the winner's sources and items as they are.
MergedDataWinnerOnly(existingTransaction, newTransaction, inputData, analysis) ==
    [sources   |-> existingTransaction.sources,
     merchant  |-> existingTransaction.merchant,
     amount    |-> existingTransaction.amount,
     currency  |-> existingTransaction.currency,
     category  |-> existingTransaction.category,
     items     |-> existingTransaction.items,
     timestamp |-> existingTransaction.timestamp,
     correlation_info |->
        [correlation_type |-> analysis.correlation_type,
         confidence |-> analysis.confidence,
         merged_transaction_id |-> newTransaction.id]]

\* mergedData of mergeTransactions, built from the existingTransaction object the
\* caller read earlier.
MergedData(existingTransaction, newTransaction, inputData, analysis) ==
    [sources   |-> Append(existingTransaction.sources, SourceOf(inputData)),
     merchant  |-> IF TruthyStr(existingTransaction.merchant)
                   THEN existingTransaction.merchant ELSE newTransaction.merchant,
     amount    |-> IF TruthyNum(existingTransaction.amount)
                   THEN existingTransaction.amount ELSE newTransaction.amount,
     currency  |-> IF TruthyStr(existingTransaction.currency)
                   THEN existingTransaction.currency ELSE newTransaction.currency,
     category  |-> IF TruthyStr(existingTransaction.category)
                   THEN existingTransaction.category ELSE newTransaction.category,
     items     |-> mergeItems(existingTransaction.items, newTransaction.items),
     timestamp |-> chooseBetterTimestamp(existingTransaction.timestamp,
                                         newTransaction.timestamp),
     correlation_info |->
        [correlation_type |-> analysis.correlation_type,
         confidence |-> analysis.confidence,
         merged_transaction_id |-> newTransaction.id]]

----------------------------------------------------------------------------
(* Inputs and oracle answers of the model *)

Procs == {"p0", "p1", "p2"}

\* Invocation p0 is an earlier one: at the start it either has run to its end
\* alone (its transaction is stored) or is never made.
Earlier == "p0"

Items(name, price) == <<[name |-> name, price |-> price]>>

\* An expense input: the inputData handed to processReceipt, its user, and the
\* processedData geminiService.processExpenseInput extracts from it.
Input(type, uri, amount, timestamp, items) ==
    [inputData |-> [type |-> type, uri |-> uri],
     userId |-> "u1",
     processedData |-> [merchant |-> "Cafe X", amount |-> amount, currency |-> "INR",
                        category |-> "food", timestamp |-> timestamp, items |-> items]]

SmsInput == Input("sms", 1, 250, At(1, 24, 0, 0, 0), <<>>)

EmailInput == Input("email", 2, 252, At(1, 24, 0, 30, 0), Items("Latte", 252))

ImageInput == Input("image", 3, 250, At(1, 24, 0, 0, 0), Items("Muffin", 40))

Inputs == {SmsInput, EmailInput, ImageInput}

Verdict(is_correlated, confidence, correlation_type, recommended_action) ==
    [is_correlated |-> is_correlated, confidence |-> confidence,
     correlation_type |-> correlation_type, recommended_action |-> recommended_action]

VerdictPool ==
    { Verdict(TRUE, 90, "related", "flag_for_review"),
      Verdict(TRUE, 70, "same_purchase", "merge"),
      Verdict(TRUE, 69, "related", "flag_for_review"),
      Verdict(FALSE, 95, "unrelated", "keep_separate") }

\* What callGemini may answer for n candidates: unparsable text, or a list of
\* n verdicts or one verdict short.
Responses(n) ==
    {[parsable |-> FALSE, correlations |-> <<>>]} \cup
    { [parsable |-> TRUE, correlations |-> c] :
        c \in UNION { [1..k -> VerdictPool] : k \in Max(n - 1, 0)..n } }

IsStrong(response, n) ==
    /\ response.parsable
    /\ Len(response.correlations) = n
    /\ \A i \in 1..n : /\ response.correlations[i].is_correlated
                       /\ response.correlations[i].confidence >= 90

NoTransaction ==
    [id |-> NoId, merchant |-> "", amount |-> 0, currency |-> "", category |-> "",
     timestamp |-> NoTimestamp, items |-> <<>>, correlation_id |-> ""]

NoMerge ==
    [winner |-> NoId, data |-> <<>>, analysis |-> DefaultVerdict]

NoCorrelation ==
    [action |-> "null", existing_transaction_id |-> NoId, confidence |-> 0,
     correlation_type |-> ""]

NoResult == [action_type |-> "pending", transaction_id |-> NoId]

----------------------------------------------------------------------------
(* The system: concurrent processReceipt invocations *)

\* transactionData of createTransaction.
TransactionData(processedData, userId, inputData) ==
    [userId |-> userId,
     merchant |-> IF TruthyStr(processedData.merchant)
                  THEN processedData.merchant ELSE "Unknown Merchant",
     amount |-> processedData.amount,
     currency |-> IF TruthyStr(processedData.currency)
                  THEN processedData.currency ELSE "INR",
     category |-> IF TruthyStr(processedData.category)
                  THEN processedData.category ELSE "other",
     items |-> processedData.items,
     timestamp |-> processedData.timestamp,
     sources |-> <<SourceOf(inputData)>>,
     correlation_id |-> "",
     correlation_info |-> NoCorrelationInfo]

\* No invocation has started; the store is empty.
InitFresh ==
    /\ store = <<>>
    /\ nextId = 0
    /\ now = 0
    /\ pc = [p \in Procs |-> IF p = Earlier THEN "idle" ELSE "start"]
    /\ txn = [p \in Procs |-> NoTransaction]
    /\ result = [p \in Procs |-> NoResult]

\* The earlier invocation found an empty store, created document 1 and its
\* background correlation found no candidate.
InitSeeded ==
    /\ store = saveTransaction(<<>>, 1,
                    TransactionData(inp[Earlier].processedData, inp[Earlier].userId,
                                    inp[Earlier].inputData), 1)
    /\ nextId = 1
    /\ now = 1
    /\ pc = [p \in Procs |-> IF p = Earlier THEN "done" ELSE "start"]
    /\ txn = [p \in Procs |-> IF p = Earlier
                               THEN [id |-> 1, correlation_id |-> ""]
                                        @@ inp[Earlier].processedData
                               ELSE NoTransaction]
    /\ result = [p \in Procs |-> IF p = Earlier
                                  THEN [action_type |-> "expense_created",
                                        transaction_id |-> 1]
                                  ELSE NoResult]

\* The two concurrent invocations are interchangeable: their inputs are taken
\* in one order only.
Init ==
    /\ inp \in {f \in [Procs -> Inputs] :
                  /\ f[Earlier] = SmsInput
                  /\ f["p1"].inputData.uri <= f["p2"].inputData.uri}
    /\ InitFresh \/ InitSeeded
    /\ cands = [p \in Procs |-> <<>>]
    /\ best = [p \in Procs |-> [index |-> 0, confidence |-> 0]]
    /\ merge = [p \in Procs |-> NoMerge]
    /\ corr = [p \in Procs |-> NoCorrelation]
    /\ faults = 0
    /\ strong = TRUE
    /\ failed = [p \in Procs |-> "none"]
    /\ call = [op |-> "none"]

\* findCorrelations returns null (no candidates, nothing actionable, or an error
\* caught at its end). In processReceipt the caller goes on to create the
\* transaction; in analyzeForCorrelations (newTransaction has an id) it is done.
ReturnNull(p) ==
    /\ corr' = [corr EXCEPT ![p] = NoCorrelation]
    /\ cands' = [cands EXCEPT ![p] = <<>>]
    /\ merge' = [merge EXCEPT ![p] = NoMerge]
    /\ pc' = [pc EXCEPT ![p] = IF txn[p].id = NoId THEN "create" ELSE "done"]
    /\ UNCHANGED <<result, txn>>

\* findCorrelations returns { action: 'merged', ... }. processReceipt returns
\* expense_merged; analyzeForCorrelations only logs it.
ReturnMerged(p) ==
    /\ corr' = [corr EXCEPT ![p] =
                    [action |-> "merged",
                     existing_transaction_id |-> merge[p].winner,
                     confidence |-> merge[p].analysis.confidence,
                     correlation_type |-> merge[p].analysis.correlation_type]]
    /\ result' = IF txn[p].id = NoId
                 THEN [result EXCEPT ![p] = [action_type |-> "expense_merged",
                                             transaction_id |-> merge[p].winner]]
                 ELSE result
    /\ pc' = [pc EXCEPT ![p] = "done"]
    /\ UNCHANGED <<cands, merge, txn>>

\* processReceipt up to its first store read: the input is extracted, an expense
\* with amount > 0 is detected and tempTransaction is built.
Start(p) ==
    /\ pc[p] = "start"
    /\ inp[p].processedData.amount > 0
    /\ txn' = [txn EXCEPT ![p] = [id |-> NoId, correlation_id |-> ""]
                                    @@ inp[p].processedData]
    /\ pc' = [pc EXCEPT ![p] = "find"]
    /\ UNCHANGED <<store, nextId, now, inp, cands, best, merge, corr, result,
                   faults, strong, failed, call>>

\* findPotentialMatches: the store query answers.
Find(p) ==
    /\ pc[p] = "find"
    /\ \E potentialMatches \in findPotentialMatches(store, txn[p], inp[p].userId) :
          IF Len(potentialMatches) = 0
          THEN ReturnNull(p)
          ELSE /\ cands' = [cands EXCEPT ![p] = potentialMatches]
               /\ pc' = [pc EXCEPT ![p] = "judge"]
               /\ UNCHANGED <<merge, corr, result, txn>>
    /\ failed' = [failed EXCEPT ![p] = "none"]
    /\ UNCHANGED <<store, nextId, now, inp, best, faults, strong, call>>

\* findPotentialMatches: the store query fails; the error is caught and [] returned.
FindFails(p) ==
    /\ pc[p] = "find"
    /\ faults < MaxFaults
    /\ faults' = faults + 1
    /\ failed' = [failed EXCEPT ![p] = "read"]
    /\ ReturnNull(p)
    /\ UNCHANGED <<store, nextId, now, inp, best, strong, call>>

\* The verdicts are in: pick the best one and, if actionable, start
\* mergeTransactions, which builds mergedData and issues the winner update.
Decide(p, correlations) ==
    LET bestMatch == SelectBest(cands[p], correlations)
    IN  /\ best' = [best EXCEPT ![p] = bestMatch]
        /\ IF IsActionable(bestMatch)
           THEN /\ merge' = [merge EXCEPT ![p] =
                       [winner |-> cands[p][bestMatch.index].id,
                        data |-> MergedData(cands[p][bestMatch.index], txn[p],
                                            inp[p].inputData,
                                            correlations[bestMatch.index]),
                        analysis |-> correlations[bestMatch.index]]]
                /\ cands' = [cands EXCEPT ![p] = <<>>]
                /\ pc' = [pc EXCEPT ![p] = "update"]
                /\ UNCHANGED <<corr, result, txn>>
           ELSE ReturnNull(p)

\* A variant in which callGemini never settles: no answer and no timeout.
JudgeNeverSettles(p) ==
    /\ pc[p] = "judge"
    /\ FALSE
    /\ UNCHANGED vars

\* analyzeMultipleCorrelationsWithGemini: callGemini answers.
Judge(p) ==
    /\ pc[p] = "judge"
    /\ \E response \in Responses(Len(cands[p])) :
          /\ Decide(p, analyzeMultipleCorrelationsWithGemini(
                            [threw |-> FALSE, response |-> response], cands[p]))
          /\ strong' = (strong /\ IsStrong(response, Len(cands[p])))
          /\ failed' = [failed EXCEPT ![p] =
                            IF response.parsable THEN "none" ELSE "malformed"]
    /\ UNCHANGED <<store, nextId, now, inp, faults, call>>

\* analyzeMultipleCorrelationsWithGemini: callGemini throws (error or timeout);
\* every candidate gets the default verdict.
JudgeFails(p) ==
    /\ pc[p] = "judge"
    /\ faults < MaxFaults
    /\ faults' = faults + 1
    /\ Decide(p, analyzeMultipleCorrelationsWithGemini([threw |-> TRUE], cands[p]))
    /\ strong' = FALSE
    /\ failed' = [failed EXCEPT ![p] = "oracle"]
    /\ UNCHANGED <<store, nextId, now, inp, call>>

\* mergeTransactions: updateTransaction(existingTransaction.id, mergedData)
\* succeeds; without an id to delete the merge is complete.
MergeUpdate(p) ==
    /\ pc[p] = "update"
    /\ Exists(store, merge[p].winner)
    /\ store' = updateTransaction(store, merge[p].winner, merge[p].data, now + 1)
    /\ now' = now + 1
    /\ IF txn[p].id # NoId
       THEN /\ pc' = [pc EXCEPT ![p] = "delete"]
            /\ UNCHANGED <<cands, merge, corr, result, txn>>
       ELSE ReturnMerged(p)
    /\ UNCHANGED <<nextId, inp, best, faults, strong, failed, call>>

\* mergeTransactions: updateDoc rejects because the winner document is gone;
\* the error reaches findCorrelations' catch.
MergeUpdateNotFound(p) ==
    /\ pc[p] = "update"
    /\ ~Exists(store, merge[p].winner)
    /\ failed' = [failed EXCEPT ![p] = "notfound"]
    /\ ReturnNull(p)
    /\ UNCHANGED <<store, nextId, now, inp, best, faults, strong, call>>

\* A variant in which the failed updateDoc has written the winner all the same.
MergeUpdateFailsAfterWrite(p) ==
    /\ pc[p] = "update"
    /\ faults < MaxFaults
    /\ faults' = faults + 1
    /\ failed' = [failed EXCEPT ![p] = "update"]
    /\ ReturnNull(p)
    /\ store' = IF Exists(store, merge[p].winner)
                THEN updateTransaction(store, merge[p].winner, merge[p].data, now)
                ELSE store
    /\ UNCHANGED <<nextId, now, inp, best, strong, call>>

\* mergeTransactions: updateDoc fails in the store.
MergeUpdateFails(p) ==
    /\ pc[p] = "update"
    /\ faults < MaxFaults
    /\ faults' = faults + 1
    /\ failed' = [failed EXCEPT ![p] = "update"]
    /\ ReturnNull(p)
    /\ UNCHANGED <<store, nextId, now, inp, best, strong, call>>

\* mergeTransactions: deleteDuplicateTransaction(newTransaction.id) succeeds.
MergeDelete(p) ==
    /\ pc[p] = "delete"
    /\ store' = deleteDoc(store, txn[p].id)
    /\ ReturnMerged(p)
    /\ UNCHANGED <<nextId, now, inp, best, faults, strong, failed, call>>

\* A variant in which a failed delete starts the correlation of the same
\* transaction over again.
MergeDeleteFailsAndRetries(p) ==
    /\ pc[p] = "delete"
    /\ faults < MaxFaults
    /\ faults' = faults + 1
    /\ failed' = [failed EXCEPT ![p] = "delete"]
    /\ corr' = [corr EXCEPT ![p] = NoCorrelation]
    /\ cands' = [cands EXCEPT ![p] = <<>>]
    /\ merge' = [merge EXCEPT ![p] = NoMerge]
    /\ pc' = [pc EXCEPT ![p] = "find"]
    /\ UNCHANGED <<store, nextId, now, inp, txn, best, result, strong, call>>

\* mergeTransactions: deleteDoc fails; the error reaches findCorrelations' catch.
MergeDeleteFails(p) ==
    /\ pc[p] = "delete"
    /\ faults < MaxFaults
    /\ faults' = faults + 1
    /\ failed' = [failed EXCEPT ![p] = "delete"]
    /\ ReturnNull(p)
    /\ UNCHANGED <<store, nextId, now, inp, best, strong, call>>

\* processReceipt: createTransaction saves the document, processReceipt starts
\* the background correlation (triggerBackgroundProcesses) and returns
\* expense_created.
Create(p) ==
    /\ pc[p] = "create"
    /\ nextId' = nextId + 1
    /\ now' = now + 1
    /\ store' = saveTransaction(store, nextId + 1,
                    TransactionData(inp[p].processedData, inp[p].userId,
                                    inp[p].inputData), now + 1)
    /\ result' = [result EXCEPT ![p] = [action_type |-> "expense_created",
                                        transaction_id |-> nextId + 1]]
    /\ txn' = [txn EXCEPT ![p] = [id |-> nextId + 1, correlation_id |-> ""]
                                    @@ inp[p].processedData]
    /\ pc' = [pc EXCEPT ![p] = "find"]
    /\ UNCHANGED <<inp, cands, best, merge, corr, faults, strong, failed, call>>

\* processReceipt: saveTransaction fails; processReceipt throws.
CreateFails(p) ==
    /\ pc[p] = "create"
    /\ faults < MaxFaults
    /\ faults' = faults + 1
    /\ result' = [result EXCEPT ![p] = [action_type |-> "error",
                                        transaction_id |-> NoId]]
    /\ failed' = [failed EXCEPT ![p] = "save"]
    /\ pc' = [pc EXCEPT ![p] = "done"]
    /\ UNCHANGED <<store, nextId, now, inp, txn, cands, best, merge, corr, strong,
                   call>>

Step(p) ==
    \/ Start(p)
    \/ Find(p)
    \/ FindFails(p)
    \/ Judge(p)
    \/ JudgeFails(p)
    \/ MergeUpdate(p)
    \/ MergeUpdateNotFound(p)
    \/ MergeUpdateFails(p)
    \/ MergeDelete(p)
    \/ MergeDeleteFails(p)
    \/ Create(p)
    \/ CreateFails(p)

Next == \E p \in Procs : Step(p)

Spec == Init /\ [][Next]_vars

\* The event loop runs every continuation that is ready: a store call settles,
\* and callGemini settles with an answer or, after the 30 s axios timeout at the
\* latest, with an error.
MaxDeleted == 1

\* deletionTarget is looked for in the lower-cased merchant and category.
MatchesTarget(transaction, deletionTarget) ==
    \/ deletionTarget = "cafe" /\ transaction.merchant = "Cafe X"
    \/ deletionTarget = "food" /\ transaction.category = "food"

\* processReceipt of a deletion request ("delete the cafe expense"):
\* handleDeletion reads the user's 10 most recent active transactions and
\* soft-deletes the first that matches the target (deleteTransaction sets
\* status 'deleted'). The request is taken as one step.
HandleDeletion ==
    /\ Cardinality({id \in DOMAIN store : store[id].status = "deleted"}) < MaxDeleted
    /\ \E transactions \in getUserTransactions(store, "u1",
                                [startDate |-> 0, endDate |-> 365 * SecondsPerDay,
                                 limit |-> 10]) :
          /\ \E i \in 1..Len(transactions) :
                /\ MatchesTarget(transactions[i], "cafe")
                /\ \A j \in 1..(i - 1) : ~MatchesTarget(transactions[j], "cafe")
                /\ store' = updateTransaction(store, transactions[i].id,
                                              [status |-> "deleted"], now + 1)
    /\ now' = now + 1
    /\ UNCHANGED <<nextId, pc, inp, txn, cands, best, merge, corr, result, faults,
                   strong, failed, call>>

NextWithDeletion == Next \/ HandleDeletion

InitLive ==
    /\ inp = [p \in Procs |-> CASE p = Earlier -> SmsInput
                                 [] p = "p1" -> EmailInput
                                 [] OTHER -> ImageInput]
    /\ InitSeeded
    /\ cands = [p \in Procs |-> <<>>]
    /\ best = [p \in Procs |-> [index |-> 0, confidence |-> 0]]
    /\ merge = [p \in Procs |-> NoMerge]
    /\ corr = [p \in Procs |-> NoCorrelation]
    /\ faults = 0
    /\ strong = TRUE
    /\ failed = [p \in Procs |-> "none"]
    /\ call = [op |-> "none"]

SpecLive == InitLive /\ [][Next]_vars /\ \A p \in Procs : WF_vars(Step(p))

\* The same two invocations, with a deletion request arriving at any moment.
SpecWithDeletion == InitLive /\ [][NextWithDeletion]_vars

----------------------------------------------------------------------------
(* The pure helpers, each called once on sampled arguments *)

MaxDocs == 1

MaxCands == 3

AmountSamples == {1, 19, 20, 94, 95, 100, 947, 950, 1000, 1049, 1052, 1053, 1060}

TimeSamples ==
    { At(1, 15, 0, 0, 0), At(1, 30, 0, 0, 0), At(1, 31, 0, 0, 0),
      At(2, 1, 0, 0, 0), At(2, 2, 0, 0, 0), At(2, 15, 0, 0, 0),
      At(1, 15, 14, 30, 0), At(1, 15, 15, 15, 0), At(1, 15, 15, 30, 0),
      At(1, 15, 16, 0, 0), At(1, 31, 23, 30, 0), At(2, 1, 0, 15, 0) }

\* Incoming transactions handed to findPotentialMatches.
TransactionSamples ==
    { [id |-> NoId, correlation_id |-> "", merchant |-> "Cafe X", amount |-> a,
       currency |-> "INR", category |-> "food", timestamp |-> t, items |-> <<>>] :
        a \in {1000, 250}, t \in {At(1, 24, 14, 30, 0), At(1, 24, 0, 0, 0)} }

\* Stored documents the query may meet.
DocSamples ==
    { [userId |-> u, merchant |-> "Cafe X", amount |-> a, currency |-> "INR",
       category |-> "food", items |-> <<>>, timestamp |-> t,
       sources |-> <<[input_type |-> "sms", uri |-> 1]>>, correlation_id |-> c,
       correlation_info |-> NoCorrelationInfo, updated_at |-> 1, status |-> st] :
        u \in {"u1", "u2"}, a \in {1049, 1060},
        t \in {At(1, 24, 0, 0, 0), At(1, 24, 14, 30, 0), At(1, 24, 14, 35, 0),
               At(1, 25, 0, 0, 0)},
        c \in {"", "corr_1"}, st \in {"active", "deleted"} }

StoreSamples == UNION { [1..n -> DocSamples] : n \in 1..MaxDocs }

\* Verdicts for the decision loop: ties at one confidence across classifications.
DecisionVerdicts ==
    VerdictPool \cup
    { Verdict(TRUE, 90, "same_purchase", "merge"),
      Verdict(TRUE, 90, "duplicate", "merge") }

\* Candidate lists of length n, as read from the store (only the fields the
\* decision could look at).
CandidateSamples(n) ==
    { [i \in 1..n |-> [id |-> i, updated_at |-> u[i]]] : u \in [1..n -> {1, 2}] }

\* isAmountMatch called on a pair of amounts and on the same pair the other way
\* round.
CallIsAmountMatch ==
    /\ call.op = "none"
    /\ \E amount1, amount2 \in AmountSamples :
          call' = [op |-> "isAmountMatch", amount1 |-> amount1, amount2 |-> amount2,
                   result |-> isAmountMatch(amount1, amount2),
                   reversed |-> isAmountMatch(amount2, amount1)]
    /\ UNCHANGED sysVars

CallIsTimeMatch ==
    /\ call.op = "none"
    /\ \E timestamp1, timestamp2 \in TimeSamples :
          call' = [op |-> "isTimeMatch", timestamp1 |-> timestamp1,
                   timestamp2 |-> timestamp2,
                   result |-> isTimeMatch(timestamp1, timestamp2)]
    /\ UNCHANGED sysVars

CallFindPotentialMatches ==
    /\ call.op = "none"
    /\ \E newTransaction \in TransactionSamples, st \in StoreSamples :
          \E potentialMatches \in findPotentialMatches(st, newTransaction, "u1") :
              call' = [op |-> "findPotentialMatches",
                       newTransaction |-> newTransaction, userId |-> "u1",
                       store |-> st, result |-> potentialMatches]
    /\ UNCHANGED sysVars

\* The decision of findCorrelations on the parsed answer of the oracle.
CallSelectBest ==
    /\ call.op = "none"
    /\ \E n \in 1..MaxCands :
          \E potentialMatches \in CandidateSamples(n),
             c \in UNION { [1..k -> DecisionVerdicts] : k \in {n, n + 1} } :
              LET correlations == parseMultipleCorrelationResponse(
                                      [parsable |-> TRUE, correlations |-> c], n)
              IN  call' = [op |-> "selectBest", potentialMatches |-> potentialMatches,
                           correlations |-> correlations,
                           result |-> SelectBest(potentialMatches, correlations)]
    /\ UNCHANGED sysVars

MaxItems == 2

\* What callGemini may do for n candidates: throw, or answer with unparsable
\* text or with a list of 0 to n + 1 verdicts.
AnswerSamples(n) ==
    {[threw |-> TRUE]} \cup
    {[threw |-> FALSE, response |-> [parsable |-> FALSE, correlations |-> <<>>]]} \cup
    { [threw |-> FALSE, response |-> [parsable |-> TRUE, correlations |-> c]] :
        c \in UNION { [1..k -> VerdictPool] : k \in 0..(n + 1) } }

\* Winners handed to mergeTransactions: each descriptive field present or
\* missing, the amount also present as 0.
WinnerSamples ==
    { [id |-> 1, userId |-> "u1", merchant |-> m, amount |-> a, currency |-> c,
       category |-> g, items |-> <<>>, timestamp |-> At(1, 24, 0, 0, 0),
       sources |-> <<[input_type |-> "sms", uri |-> 1]>>, correlation_id |-> "",
       correlation_info |-> NoCorrelationInfo, updated_at |-> 1,
       status |-> "active"] :
        m \in {"Cafe X", ""}, a \in {250, 0, NoAmount}, c \in {"INR", ""},
        g \in {"food", ""} }

\* Incoming transactions handed to mergeTransactions.
IncomingSamples ==
    { [id |-> NoId, correlation_id |-> "", merchant |-> m, amount |-> 252,
       currency |-> c, category |-> "dining", timestamp |-> At(1, 24, 0, 30, 0),
       items |-> Items("Latte", 252)] :
        m \in {"Cafe Y", ""}, c \in {"USD", ""} }

\* Item lists of at most MaxItems items, all with the same price.
ItemSamples(price) ==
    UNION { [1..n -> { [name |-> name, price |-> price] :
                          name \in {"Latte", "LATTE", "Muffin"} }] :
            n \in 0..MaxItems }

CallAnalyzeMultipleCorrelations ==
    /\ call.op = "none"
    /\ \E n \in 1..MaxCands :
          \E answer \in AnswerSamples(n) :
              LET potentialMatches == [i \in 1..n |-> [id |-> i, updated_at |-> 1]]
              IN  call' = [op |-> "analyzeMultipleCorrelations",
                           potentialMatches |-> potentialMatches, answer |-> answer,
                           result |-> analyzeMultipleCorrelationsWithGemini(
                                          answer, potentialMatches)]
    /\ UNCHANGED sysVars

\* mergedData as mergeTransactions builds it for the winner update.
CallMergeTransactions ==
    /\ call.op = "none"
    /\ \E existingTransaction \in WinnerSamples, newTransaction \in IncomingSamples :
          call' = [op |-> "mergeTransactions",
                   existingTransaction |-> existingTransaction,
                   newTransaction |-> newTransaction,
                   result |-> MergedData(existingTransaction, newTransaction,
                                         EmailInput.inputData,
                                         Verdict(TRUE, 90, "duplicate", "merge"))]
    /\ UNCHANGED sysVars

CallMergeItems ==
    /\ call.op = "none"
    /\ \E existingItems \in ItemSamples(10), newItems \in ItemSamples(20) :
          call' = [op |-> "mergeItems", existingItems |-> existingItems,
                   newItems |-> newItems,
                   result |-> mergeItems(existingItems, newItems)]
    /\ UNCHANGED sysVars

CallChooseBetterTimestamp ==
    /\ call.op = "none"
    /\ \E existing, newTimestamp \in TimeSamples \cup {NoTimestamp} :
          call' = [op |-> "chooseBetterTimestamp", existing |-> existing,
                   newTimestamp |-> newTimestamp,
                   result |-> chooseBetterTimestamp(existing, newTimestamp)]
    /\ UNCHANGED sysVars

\* processReceipt(inputData, userId) run alone on store st, up to its return:
\* the possible [store, result, correlation] it ends with, one per order the
\* candidate query may answer in. `answer` is what callGemini does when asked,
\* `time` the clock of the one write.
processReceipt(st, input, answer, time) ==
    LET processedData == input.processedData
        tempTransaction == [id |-> NoId, correlation_id |-> ""] @@ processedData
        transactionId == Cardinality(DOMAIN st) + 1
        Created ==
            [store |-> saveTransaction(st, transactionId,
                           TransactionData(processedData, input.userId,
                                           input.inputData), time),
             result |-> [action_type |-> "expense_created",
                         transaction_id |-> transactionId],
             correlation |-> NoCorrelation]
        Outcome(potentialMatches) ==
            IF Len(potentialMatches) = 0 THEN Created
            ELSE LET correlations == analyzeMultipleCorrelationsWithGemini(
                                         answer, potentialMatches)
                     bestMatch == SelectBest(potentialMatches, correlations)
                 IN  IF IsActionable(bestMatch)
                     THEN LET winner == potentialMatches[bestMatch.index]
                              analysis == correlations[bestMatch.index]
                          IN  [store |-> updateTransaction(st, winner.id,
                                             MergedData(winner, tempTransaction,
                                                        input.inputData, analysis),
                                             time),
                               result |-> [action_type |-> "expense_merged",
                                           transaction_id |-> winner.id],
                               correlation |->
                                   [action |-> "merged",
                                    existing_transaction_id |-> winner.id,
                                    confidence |-> bestMatch.confidence,
                                    correlation_type |-> analysis.correlation_type]]
                     ELSE Created
    IN  IF processedData.amount > 0
        THEN { Outcome(potentialMatches) :
                 potentialMatches \in findPotentialMatches(st, tempTransaction,
                                                           input.userId) }
        ELSE { [store |-> st,
                result |-> [action_type |-> "no_expense", transaction_id |-> NoId],
                correlation |-> NoCorrelation] }

\* Stores holding one transaction created from an sms input.
SeededStores ==
    { saveTransaction(<<>>, 1,
          TransactionData(Input("sms", 1, a, t, <<>>).processedData, "u1",
                          Input("sms", 1, a, t, <<>>).inputData), 1) :
        a \in {250, 300}, t \in {At(1, 24, 14, 30, 0), At(1, 24, 0, 0, 0)} }

\* Email receipts arriving afterwards.
ArrivingInputs ==
    { Input("email", 2, 252, t, Items("Latte", 252)) :
        t \in {At(1, 24, 14, 35, 0), At(1, 24, 16, 0, 0)} }

\* What callGemini may do when asked about one candidate.
SingleAnswers ==
    {[threw |-> TRUE]} \cup
    {[threw |-> FALSE, response |-> [parsable |-> FALSE, correlations |-> <<>>]]} \cup
    { [threw |-> FALSE, response |-> [parsable |-> TRUE, correlations |-> <<v>>]] :
        v \in VerdictPool \cup {Verdict(TRUE, 88, "same_purchase", "merge")} }

\* Answers in which every verdict carries the transaction_index of the
\* candidate it is about: the oracle speaks about k of the n candidates, in any
\* order, each at most once.
AddressedAnswers(n) ==
    { [parsable |-> TRUE,
       correlations |-> [j \in 1..k |->
                            [transaction_index |-> idx[j]] @@ v[j]]] :
        <<k, idx, v>> \in
            UNION { {k0} \X { f \in [1..k0 -> 1..n] :
                                \A a, b \in 1..k0 : f[a] = f[b] => a = b }
                        \X [1..k0 -> { Verdict(TRUE, 90, "duplicate", "merge"),
                                       Verdict(FALSE, 10, "unrelated",
                                               "keep_separate") }] :
                    k0 \in 1..n } }

\* findCorrelations from the oracle's answer to the choice of bestMatch: the
\* answer is parsed and the loop reads correlations[i] for candidate i.
CallFindBestMatch ==
    /\ call.op = "none"
    /\ \E n \in 1..MaxCands :
          \E response \in AddressedAnswers(n) :
              LET potentialMatches == [i \in 1..n |-> [id |-> i, updated_at |-> 1]]
                  correlations == analyzeMultipleCorrelationsWithGemini(
                                      [threw |-> FALSE, response |-> response],
                                      potentialMatches)
              IN  call' = [op |-> "findBestMatch",
                           potentialMatches |-> potentialMatches,
                           response |-> response,
                           correlations |-> correlations,
                           result |-> SelectBest(potentialMatches, correlations)]
    /\ UNCHANGED sysVars

\* Verdicts as an arbitrary oracle may write them: one field of a sound verdict
\* out of range, unknown, empty or missing.
AdversarialVerdicts ==
    { Verdict(TRUE, c, "duplicate", "merge") : c \in {150, 100, 0, NoAmount, 0 - 20} }
    \cup { Verdict(TRUE, 90, t, "merge") : t \in {"", "identical"} }
    \cup { Verdict(TRUE, 90, "duplicate", a) : a \in {"", "purge"} }
    \cup { Verdict(FALSE, 150, "unrelated", "keep_separate") }

\* parseMultipleCorrelationResponse on such a text, and the decision
\* findCorrelations takes on what it returns.
CallParseMultipleCorrelationResponse ==
    /\ call.op = "none"
    /\ \E expectedCount \in 1..MaxCands :
          \E c \in UNION { [1..k -> AdversarialVerdicts] : k \in 0..expectedCount } :
              LET response == [parsable |-> TRUE, correlations |-> c]
                  correlations == parseMultipleCorrelationResponse(response,
                                                                   expectedCount)
                  potentialMatches == [i \in 1..expectedCount |->
                                          [id |-> i, updated_at |-> 1]]
              IN  call' = [op |-> "parseMultipleCorrelationResponse",
                           response |-> response, expectedCount |-> expectedCount,
                           result |-> correlations,
                           best |-> SelectBest(potentialMatches, correlations)]
    /\ UNCHANGED sysVars

CallProcessReceipt ==
    /\ call.op = "none"
    /\ \E st \in SeededStores, input \in ArrivingInputs, answer \in SingleAnswers :
          \E outcome \in processReceipt(st, input, answer, 2) :
              call' = [op |-> "processReceipt", store |-> st, input |-> input,
                       answer |-> answer, result |-> outcome]
    /\ UNCHANGED sysVars

NextPure ==
    \/ CallProcessReceipt
    \/ CallIsAmountMatch
    \/ CallIsTimeMatch
    \/ CallFindPotentialMatches
    \/ CallSelectBest
    \/ CallAnalyzeMultipleCorrelations
    \/ CallMergeTransactions
    \/ CallMergeItems
    \/ CallChooseBetterTimestamp
    \/ CallFindBestMatch
    \/ CallParseMultipleCorrelationResponse

InitPure ==
    /\ inp = [p \in Procs |-> SmsInput]
    /\ InitFresh
    /\ cands = [p \in Procs |-> <<>>]
    /\ best = [p \in Procs |-> [index |-> 0, confidence |-> 0]]
    /\ merge = [p \in Procs |-> NoMerge]
    /\ corr = [p \in Procs |-> NoCorrelation]
    /\ faults = 0
    /\ strong = TRUE
    /\ failed = [p \in Procs |-> "none"]
    /\ call = [op |-> "none"]

SpecPure == InitPure /\ [][NextPure]_vars

----------------------------------------------------------------------------
(* Properties of the matching predicates and of the decision (SpecPure) *)

\* An eligible stored document for an incoming transaction: same owner, active,
\* another id, no correlation_id on either side.
Eligible(newTransaction, userId, doc) ==
    /\ doc.userId = userId
    /\ doc.status = "active"
    /\ doc.id # newTransaction.id
    /\ doc.correlation_id = "" /\ newTransaction.correlation_id = ""

InResult(doc, potentialMatches) ==
    \E i \in 1..Len(potentialMatches) : potentialMatches[i].id = doc.id

\* C5: isAmountMatch(a1, a2) holds exactly when |a1 - a2| is at most 5% of the
\* larger amount (20 * |a1 - a2| <= max); 1000 vs 1049 matches and 1000 vs 1060
\* does not, and an otherwise eligible stored document at the same instant is a
\* candidate exactly when its amount matches.
ThmC5 ==
    /\ call.op = "isAmountMatch" =>
          /\ call.result <=>
                20 * Abs(call.amount1 - call.amount2)
                    <= Max(call.amount1, call.amount2)
          /\ {call.amount1, call.amount2} = {1000, 1049} => call.result
          /\ {call.amount1, call.amount2} = {1000, 1060} => ~call.result
    /\ call.op = "findPotentialMatches" =>
          \A id \in DOMAIN call.store :
              LET doc == Snapshot(call.store, id)
              IN  (/\ Eligible(call.newTransaction, call.userId, doc)
                   /\ doc.timestamp = call.newTransaction.timestamp)
                  => (InResult(doc, call.result) <=>
                        20 * Abs(call.newTransaction.amount - doc.amount)
                            <= Max(call.newTransaction.amount, doc.amount))

WitC5 ==
    /\ call.op = "findPotentialMatches"
    /\ call.newTransaction.amount = 1000
    /\ Len(call.result) = 1
    /\ call.result[1].amount = 1049

\* C6 (as claimed): two date-only timestamps match when at most 1 day apart and do
\* not match when 2 or more days apart, whatever the months; two time-bearing
\* timestamps match exactly when at most 60 minutes apart.
ClaimC6 ==
    call.op = "isTimeMatch" =>
        LET elapsed == Abs(call.timestamp1 - call.timestamp2)
            precise1 == hasPreciseTime(call.timestamp1)
            precise2 == hasPreciseTime(call.timestamp2)
        IN  /\ (~precise1 /\ ~precise2 /\ elapsed <= SecondsPerDay) => call.result
            /\ (~precise1 /\ ~precise2 /\ elapsed >= 2 * SecondsPerDay) => ~call.result
            /\ (precise1 /\ precise2) => (call.result <=> elapsed <= 60 * 60)

\* C7 (as claimed): for a time-bearing incoming transaction, an eligible date-only
\* stored document within 1 day and with a matching amount is a candidate.
ClaimC7 ==
    call.op = "findPotentialMatches" =>
        \A id \in DOMAIN call.store :
            LET doc == Snapshot(call.store, id)
            IN  (/\ Eligible(call.newTransaction, call.userId, doc)
                 /\ hasPreciseTime(call.newTransaction.timestamp)
                 /\ ~hasPreciseTime(doc.timestamp)
                 /\ Abs(call.newTransaction.timestamp - doc.timestamp) <= SecondsPerDay
                 /\ isAmountMatch(call.newTransaction.amount, doc.amount))
                => InResult(doc, call.result)

\* The verdicts of the candidates that are correlated.
Correlated(correlations, n) ==
    { j \in 1..n : j <= Len(correlations) /\ correlations[j].is_correlated }

\* C9: the chosen candidate's verdict has is_correlated = true and the highest
\* confidence of all correlated verdicts of the candidates; no candidate is chosen
\* only when no correlated verdict has a confidence above 0.
ThmC9 ==
    call.op = "selectBest" =>
        LET c == call.correlations
            n == Len(call.potentialMatches)
            b == call.result
        IN  IF b.index # 0
            THEN /\ b.index \in Correlated(c, n)
                 /\ b.confidence = c[b.index].confidence
                 /\ \A j \in Correlated(c, n) : c[j].confidence <= c[b.index].confidence
            ELSE \A j \in Correlated(c, n) : c[j].confidence = 0

WitC9 ==
    /\ call.op = "selectBest"
    /\ call.result.index = 2
    /\ call.correlations[1].confidence = 95 /\ ~call.correlations[1].is_correlated
    /\ call.correlations[2].confidence = 70
    /\ Len(call.potentialMatches) = 3 /\ call.correlations[3].confidence = 69

Rank(correlation_type) ==
    CASE correlation_type = "duplicate" -> 3
      [] correlation_type = "same_purchase" -> 2
      [] correlation_type = "related" -> 1
      [] OTHER -> 0

\* The correlated verdicts of the candidates that share the highest confidence.
Tied(correlations, n) ==
    { j \in Correlated(correlations, n) :
        /\ correlations[j].confidence > 0
        /\ \A i \in Correlated(correlations, n) :
              correlations[i].confidence <= correlations[j].confidence }

----------------------------------------------------------------------------
(* Properties of concurrent processing (Spec) *)

Invoked == { p \in Procs : pc[p] # "idle" }

AllDone == \A p \in Invoked : pc[p] = "done"

ActiveDocs == { id \in DOMAIN store : store[id].status = "active" }

DistinctInputs == \A p, q \in Invoked : p # q => inp[p] # inp[q]

\* Invocation p has merged its input into document w and returned.
MergedInto(p, w) ==
    /\ pc[p] = "done"
    /\ corr[p].action = "merged"
    /\ corr[p].existing_transaction_id = w

HasItems(items, incoming) ==
    \A k \in 1..Len(incoming) :
        \E i \in 1..Len(items) :
            toLowerCase(items[i].name) = toLowerCase(incoming[k].name)

\* C1 (as claimed): when the inputs are distinct, the oracle judged every pair
\* correlated with confidence >= 90 and nothing failed, every interleaving ends
\* with exactly one active record, whose sources hold one entry per input.
ClaimC1 ==
    (AllDone /\ strong /\ faults = 0 /\ DistinctInputs) =>
        \E id \in DOMAIN store :
            /\ ActiveDocs = {id}
            /\ Len(store[id].sources) = Cardinality(Invoked)

\* C2 (as claimed): merging the same incoming input into the same winner a second
\* time leaves the winner's sources and items as one merge leaves them: the
\* creating entry followed by one entry of the incoming input.
ClaimC2 ==
    \A p, q \in Procs \ {Earlier} :
        LET w == result[Earlier].transaction_id
        IN  (/\ p # q
             /\ pc[Earlier] = "done"
             /\ MergedInto(p, w) /\ MergedInto(q, w)
             /\ result[p].action_type = "expense_merged"
             /\ result[q].action_type = "expense_merged"
             /\ inp[p] = inp[q] /\ inp[p] # inp[Earlier]
             /\ w \in DOMAIN store)
            => /\ store[w].sources = <<SourceOf(inp[Earlier].inputData),
                                        SourceOf(inp[p].inputData)>>
               /\ store[w].items = mergeItems(inp[Earlier].processedData.items,
                                              inp[p].processedData.items)

\* C3 (as claimed): no write to a stored record drops an entry of its sources.
ClaimC3 ==
    [][\A id \in DOMAIN store \cap DOMAIN store' :
          \A i \in 1..Len(store[id].sources) :
              \E j \in 1..Len(store'[id].sources) :
                  store'[id].sources[j] = store[id].sources[i]]_vars

\* C4 (as claimed): when two invocations have merged into the same winner, the
\* winner holds the item names of both incoming transactions, and a time-precise
\* timestamp if either of them carried one.
ClaimC4 ==
    \A p, q \in Procs :
        \A w \in DOMAIN store :
            (p # q /\ MergedInto(p, w) /\ MergedInto(q, w)) =>
                /\ HasItems(store[w].items, inp[p].processedData.items)
                /\ HasItems(store[w].items, inp[q].processedData.items)
                /\ (\/ hasPreciseTime(inp[p].processedData.timestamp)
                    \/ hasPreciseTime(inp[q].processedData.timestamp))
                   => hasPreciseTime(store[w].timestamp)

\* C8: a merge is in progress only for a best verdict of confidence >= 70; when
\* the verdicts come in, a best confidence of 70 or more starts the merge of the
\* chosen candidate, and anything less returns null and leaves the store as it is.
ThmC8 ==
    [][\A p \in Procs :
          /\ pc[p] \in {"update", "delete"} =>
                best[p].index # 0 /\ best[p].confidence >= 70
          /\ (pc[p] = "judge" /\ pc'[p] # "judge") =>
                IF best'[p].index # 0 /\ best'[p].confidence >= 70
                THEN /\ pc'[p] = "update"
                     /\ merge'[p].winner = cands[p][best'[p].index].id
                     /\ merge'[p].analysis.confidence = best'[p].confidence
                ELSE /\ best'[p].confidence <= 69
                     /\ store' = store
                     /\ corr'[p] = NoCorrelation
                     /\ merge'[p] = NoMerge
                     /\ pc'[p] \in {"create", "done"}]_vars

WitC8 ==
    \E p, q \in Procs :
        /\ pc[p] = "update" /\ best[p].confidence = 70
        /\ pc[q] = "create" /\ best[q].index # 0 /\ best[q].confidence = 69
        /\ corr[q] = NoCorrelation

----------------------------------------------------------------------------
(* Properties of the oracle gateway and of the merge resolver (SpecPure) *)

\* The verdicts the oracle gave, in the order it gave them (none when the call
\* threw or the text was unparsable).
Given(answer) ==
    IF answer.threw \/ ~answer.response.parsable
    THEN <<>> ELSE answer.response.correlations

\* C12 (as claimed): for n candidates the gateway returns exactly n verdicts, the
\* i-th being the oracle's i-th verdict or, where the oracle gave none, the
\* default verdict; also when the oracle gave more than n or fewer than n.
ClaimC12 ==
    call.op = "analyzeMultipleCorrelations" =>
        LET n == Len(call.potentialMatches)
        IN  /\ Len(call.result) = n
            /\ \A i \in 1..n :
                  call.result[i] = IF i <= Len(Given(call.answer))
                                   THEN Given(call.answer)[i] ELSE DefaultVerdict

\* C13: unparsable oracle text for n candidates gives n verdicts, each with
\* is_correlated = false, confidence = 0, correlation_type = unrelated and
\* recommended_action = keep_separate.
ThmC13 ==
    (/\ call.op = "analyzeMultipleCorrelations"
     /\ ~call.answer.threw
     /\ ~call.answer.response.parsable) =>
        /\ Len(call.result) = Len(call.potentialMatches)
        /\ \A i \in 1..Len(call.result) :
              call.result[i] = [is_correlated |-> FALSE, confidence |-> 0,
                                correlation_type |-> "unrelated",
                                recommended_action |-> "keep_separate"]

WitC13 ==
    /\ call.op = "analyzeMultipleCorrelations"
    /\ ~call.answer.threw
    /\ ~call.answer.response.parsable
    /\ Len(call.potentialMatches) = 3
    /\ Len(call.result) = 3

NameIn(item, items) ==
    \E i \in 1..Len(items) : toLowerCase(items[i].name) = toLowerCase(item.name)

\* C18 (as claimed): mergeItems returns the winner's items followed by exactly
\* the incoming items whose name matches no winner item case-insensitively.
ClaimC18 ==
    call.op = "mergeItems" =>
        LET Unmatched(item) == ~NameIn(item, call.existingItems)
        IN  call.result = call.existingItems \o SelectSeq(call.newItems, Unmatched)

\* C18 (amended): with an empty winner list mergeItems returns the incoming list
\* as it is; otherwise it returns the winner's items unchanged and in order,
\* followed in order by the incoming items whose name matches,
\* case-insensitively, no winner item and no earlier incoming item.
ThmC18 ==
    call.op = "mergeItems" =>
        LET e == call.existingItems
            n == call.newItems
            r == call.result
            Kept == { k \in 1..Len(n) :
                        /\ ~NameIn(n[k], e)
                        /\ \A j \in 1..(k - 1) :
                              toLowerCase(n[j].name) # toLowerCase(n[k].name) }
        IN  IF Len(e) = 0 THEN r = n
            ELSE /\ Len(r) = Len(e) + Cardinality(Kept)
                 /\ SubSeq(r, 1, Len(e)) = e
                 /\ \A k \in Kept :
                       r[Len(e) + Cardinality({j \in Kept : j <= k})] = n[k]

WitC18 ==
    /\ call.op = "mergeItems"
    /\ Len(call.existingItems) = 1 /\ call.existingItems[1].name = "Muffin"
    /\ Len(call.newItems) = 2
    /\ call.newItems[1].name = "Latte" /\ call.newItems[2].name = "LATTE"
    /\ call.result = <<call.existingItems[1], call.newItems[1]>>

\* C19: chooseBetterTimestamp returns the incoming timestamp when the winner has
\* none or when the incoming one is time-precise and the winner's is date-only,
\* and the winner's in every other case; a time-precise winner timestamp is
\* never replaced.
ThmC19 ==
    call.op = "chooseBetterTimestamp" =>
        LET w == call.existing
            n == call.newTimestamp
            Precise(t) == t # NoTimestamp /\ hasPreciseTime(t)
            DateOnly(t) == t # NoTimestamp /\ ~hasPreciseTime(t)
        IN  /\ call.result = IF w = NoTimestamp \/ (Precise(n) /\ DateOnly(w))
                             THEN n ELSE w
            /\ Precise(w) => call.result = w

WitC19 ==
    /\ call.op = "chooseBetterTimestamp"
    /\ call.existing = At(1, 15, 0, 0, 0)
    /\ call.newTimestamp = At(1, 15, 14, 30, 0)
    /\ call.result = call.newTimestamp

----------------------------------------------------------------------------
(* Properties of the decision policy and of failure handling (Spec) *)

\* C11 (as claimed): mergeTransactions runs only for a selected verdict whose
\* recommended action is merge.
ClaimC11 ==
    \A p \in Procs :
        pc[p] \in {"update", "delete"} =>
            merge[p].analysis.recommended_action = "merge"

\* C14: when the oracle fails (callGemini throws, or its text is unparsable)
\* during processReceipt, findCorrelations returns null with the store as it
\* was and no merge started; the next step persists the incoming transaction as
\* a new active record with its own single source entry, leaves every other
\* record as it was and returns the new id as expense_created. The only other
\* outcome is that this save itself fails in the store.
ThmC14 ==
    [][\A p \in Procs :
          /\ (/\ pc[p] = "judge" /\ pc'[p] # "judge"
              /\ txn[p].id = NoId
              /\ failed'[p] \in {"oracle", "malformed"}) =>
                /\ pc'[p] = "create"
                /\ store' = store
                /\ corr'[p] = NoCorrelation
                /\ merge'[p] = NoMerge
                /\ result'[p] = NoResult
          /\ (/\ pc[p] = "create" /\ pc'[p] # "create"
              /\ failed[p] \in {"oracle", "malformed"}) =>
                \/ /\ result'[p] = [action_type |-> "expense_created",
                                    transaction_id |-> nextId']
                   /\ nextId' \notin DOMAIN store
                   /\ DOMAIN store' = DOMAIN store \cup {nextId'}
                   /\ \A id \in DOMAIN store : store'[id] = store[id]
                   /\ store'[nextId'].sources = <<SourceOf(inp[p].inputData)>>
                   /\ store'[nextId'].status = "active"
                \/ /\ failed'[p] = "save"
                   /\ faults' = faults + 1
                   /\ store' = store
                   /\ result'[p].action_type = "error"]_vars

WitC14 ==
    \E p \in Procs :
        /\ failed[p] = "oracle"
        /\ pc[p] = "find"
        /\ result[p].action_type = "expense_created"
        /\ result[p].transaction_id \in DOMAIN store
        /\ store[result[p].transaction_id].sources = <<SourceOf(inp[p].inputData)>>
        /\ Cardinality(DOMAIN store) >= 2

\* C15 (as claimed): after a failed store read in the candidate search,
\* findCorrelations returns something other than the null it returns when there
\* is no candidate or no correlation.
ClaimC15 ==
    \A p \in Procs : failed[p] = "read" => corr[p].action # "null"

\* C16 (as claimed): after a failed winner update and after a failed duplicate
\* delete findCorrelations returns something other than null, and not the same
\* thing in the two cases.
ClaimC16 ==
    /\ \A p \in Procs :
          failed[p] \in {"update", "notfound", "delete"} => corr[p].action # "null"
    /\ \A p, q \in Procs :
          (failed[p] \in {"update", "notfound"} /\ failed[q] = "delete")
              => corr[p] # corr[q]

\* C20 (as claimed): the winner update of a merge leaves in the winner's sources
\* every source entry of the incoming transaction: the entries of its stored
\* record when it has one, its own input's entry otherwise.
ClaimC20 ==
    [][\A p \in Procs :
          (pc[p] = "update" /\ pc'[p] # "update" /\ store' # store) =>
              LET w == merge[p].winner
                  incoming == IF txn[p].id # NoId /\ Exists(store, txn[p].id)
                              THEN store[txn[p].id].sources
                              ELSE <<SourceOf(inp[p].inputData)>>
              IN  \A i \in 1..Len(incoming) :
                      \E j \in 1..Len(store'[w].sources) :
                          store'[w].sources[j] = incoming[i]]_vars

----------------------------------------------------------------------------
(* Properties of the merge commit and of what processReceipt reports (Spec) *)

\* C21: the delete of the incoming record is issued only by a merge whose winner
\* update has just been written (the winner then holds the merged data and the
\* incoming record is as it was); a failed winner update leaves the whole store,
\* the incoming record included, as it was; a completed merge of a stored
\* incoming record leaves no document of that id in the store; and a document
\* leaves the store only through such a delete.
ThmC21 ==
    [][/\ \A p \in Procs :
             /\ (pc[p] # "delete" /\ pc'[p] = "delete") =>
                   /\ pc[p] = "update"
                   /\ Exists(store', merge[p].winner)
                   /\ \A f \in DOMAIN merge[p].data :
                         store'[merge[p].winner][f] = merge[p].data[f]
                   /\ txn[p].id \in DOMAIN store =>
                         /\ txn[p].id \in DOMAIN store'
                         /\ store'[txn[p].id] = store[txn[p].id]
             /\ (/\ pc[p] = "update" /\ pc'[p] \notin {"update", "delete"}
                 /\ corr'[p].action = "null") =>
                   store' = store
             /\ (/\ pc[p] = "delete" /\ pc'[p] = "done"
                 /\ corr'[p].action = "merged") =>
                   txn[p].id \notin DOMAIN store'
       /\ \A id \in DOMAIN store \ DOMAIN store' :
             \E p \in Procs : pc[p] = "delete" /\ txn[p].id = id]_vars

WitC21 ==
    \E p \in Procs :
        /\ pc[p] = "done"
        /\ corr[p].action = "merged"
        /\ txn[p].id # NoId
        /\ txn[p].id \notin DOMAIN store
        /\ corr[p].existing_transaction_id \in DOMAIN store
        /\ store[corr[p].existing_transaction_id].correlation_info.merged_transaction_id
              = txn[p].id

----------------------------------------------------------------------------
(* Properties of the candidate search (SpecPure) *)

\* C23: every candidate findPotentialMatches returns belongs to the owner the
\* search was made for and has status active; a stored record of another owner
\* or with another status is never among the candidates.
ThmC23 ==
    call.op = "findPotentialMatches" =>
        /\ \A i \in 1..Len(call.result) :
              /\ call.result[i].userId = call.userId
              /\ call.result[i].status = "active"
        /\ \A id \in DOMAIN call.store :
              (call.store[id].userId # call.userId \/ call.store[id].status # "active")
                  => ~InResult(Snapshot(call.store, id), call.result)

WitC23 ==
    /\ call.op = "findPotentialMatches"
    /\ call.store[1].userId = call.userId
    /\ call.store[1].status = "deleted"
    /\ call.store[1].correlation_id = ""
    /\ call.store[1].timestamp = call.newTransaction.timestamp
    /\ isAmountMatch(call.newTransaction.amount, call.store[1].amount)
    /\ call.result = <<>>

----------------------------------------------------------------------------
(* Properties of the audit trail and of lost work (Spec) *)

\* The records of past merges that can be read back for winner w: the
\* correlation_info field of its document. (Nothing writes the 'correlations'
\* collection.)
LedgerEntries(st, w) ==
    IF st[w].correlation_info = NoCorrelationInfo
    THEN {} ELSE {st[w].correlation_info}

\* C25 (as claimed): for every stored winner there are at least as many
\* retrievable merge entries as merges that completed into it.
ClaimC25 ==
    \A w \in DOMAIN store :
        Cardinality({p \in Procs : MergedInto(p, w)})
            <= Cardinality(LedgerEntries(store, w))

----------------------------------------------------------------------------
(* The worked example (SpecPure) *)

\* C26: with A stored (250 INR at 14:30, sources [sms], no items), B arriving
\* (252 INR at 14:35, source email, items [Latte]) and the oracle answering
\* {correlated, 88, same_purchase, merge}, processReceipt of B ends with A the
\* only record, active, with sources [sms, email] and items [Latte], reports
\* expense_merged with A's id, and the merge is recorded with confidence 88.
ThmC26 ==
    (/\ call.op = "processReceipt"
     /\ DOMAIN call.store = {1}
     /\ call.store[1].amount = 250
     /\ call.store[1].timestamp = At(1, 24, 14, 30, 0)
     /\ call.input.processedData.timestamp = At(1, 24, 14, 35, 0)
     /\ ~call.answer.threw
     /\ call.answer.response
           = [parsable |-> TRUE,
              correlations |-> <<Verdict(TRUE, 88, "same_purchase", "merge")>>]) =>
        LET after == call.result.store
        IN  /\ DOMAIN after = {1}
            /\ after[1].status = "active"
            /\ after[1].sources = <<[input_type |-> "sms", uri |-> 1],
                                    [input_type |-> "email", uri |-> 2]>>
            /\ after[1].items = <<[name |-> "Latte", price |-> 252]>>
            /\ after[1].amount = 250
            /\ after[1].timestamp = At(1, 24, 14, 30, 0)
            /\ after[1].correlation_info.confidence = 88
            /\ after[1].correlation_info.correlation_type = "same_purchase"
            /\ call.result.result = [action_type |-> "expense_merged",
                                     transaction_id |-> 1]
            /\ call.result.correlation.confidence = 88

WitC26 ==
    /\ call.op = "processReceipt"
    /\ call.store[1].amount = 250
    /\ call.store[1].timestamp = At(1, 24, 14, 30, 0)
    /\ call.store[1].sources = <<[input_type |-> "sms", uri |-> 1]>>
    /\ call.store[1].items = <<>>
    /\ call.input.processedData.amount = 252
    /\ call.input.processedData.timestamp = At(1, 24, 14, 35, 0)
    /\ call.input.inputData.type = "email"
    /\ ~call.answer.threw
    /\ call.answer.response.parsable
    /\ call.answer.response.correlations[1].confidence = 88
    /\ call.result.result.action_type = "expense_merged"

----------------------------------------------------------------------------
(* Termination (SpecLive) *)

\* Invocation p is inside a findCorrelations call.
InFindCorrelations(p) == pc[p] \in {"find", "judge", "update", "delete"}

\* C27: whatever the oracle does (answers, answers unparsable text, fails or
\* times out), eventually every invocation is done, with no findCorrelations
\* call of it still running; and when callGemini fails or times out, that step
\* returns null with no merge started and the store as it was.
ThmC27 ==
    /\ <>(\A p \in Procs : ~InFindCorrelations(p) /\ pc[p] = "done")
    /\ [][\A p \in Procs :
             (pc[p] = "judge" /\ failed'[p] = "oracle") =>
                 /\ ~InFindCorrelations(p)'
                 /\ corr'[p] = NoCorrelation
                 /\ merge'[p] = NoMerge
                 /\ store' = store]_vars

WitC27 ==
    \E p \in Procs :
        /\ failed[p] = "oracle"
        /\ pc[p] = "done"
        /\ txn[p].id \in DOMAIN store
        /\ Cardinality(DOMAIN store) >= 2

----------------------------------------------------------------------------
(* Properties of null returns and of lost purchases (Spec) *)

\* C28 (as claimed): when the background findCorrelations call of an invocation
\* has returned null, no stored record carries merged data of that call (a
\* correlation_info naming the invocation's own record as the merged one).
ClaimC28 ==
    \A p \in Procs :
        (pc[p] = "done" /\ txn[p].id # NoId /\ corr[p].action = "null") =>
            \A id \in DOMAIN store :
                store[id].correlation_info.merged_transaction_id # txn[p].id

\* The input of invocation p is represented: some active record lists its
\* source entry.
Represented(p) ==
    \E id \in ActiveDocs :
        \E i \in 1..Len(store[id].sources) :
            store[id].sources[i] = SourceOf(inp[p].inputData)

\* Invocations p and q have each merged their own record into the other's.
MergedIntoEachOther(p, q) ==
    /\ p # q
    /\ txn[p].id # NoId /\ txn[q].id # NoId
    /\ MergedInto(p, txn[q].id)
    /\ MergedInto(q, txn[p].id)

\* C29 (as claimed): two records whose background correlations each chose the
\* other as winner are never both gone, and every input reported as created or
\* merged is represented in some active record.
ClaimC29 ==
    /\ \A p, q \in Procs :
          MergedIntoEachOther(p, q) =>
              (txn[p].id \in DOMAIN store \/ txn[q].id \in DOMAIN store)
    /\ \A p \in Procs :
          result[p].action_type \in {"expense_created", "expense_merged"}
              => Represented(p)

----------------------------------------------------------------------------
(* Merging into a winner that is no longer active (SpecWithDeletion) *)

\* C30 (as claimed): the winner update of a merge is written only into a record
\* that is active at that moment; when the winner is gone or no longer active,
\* the step writes nothing and does not end in a reported merge.
ClaimC30 ==
    [][\A p \in Procs :
          (pc[p] = "update" /\ pc'[p] # "update") =>
              LET w == merge[p].winner
                  active == Exists(store, w) /\ store[w].status = "active"
              IN  /\ store' # store => active
                  /\ ~active => /\ store' = store
                                /\ pc'[p] # "delete"
                                /\ corr'[p].action # "merged"]_vars

----------------------------------------------------------------------------
(* Properties of the verdicts the decision acts on (SpecPure) *)

\* The verdicts of the answer that are about candidate i.
AddressedTo(response, i) ==
    { j \in 1..Len(response.correlations) :
        response.correlations[j].transaction_index = i }

\* C31 (as claimed): the verdict findCorrelations applies to candidate i is the
\* one the oracle addressed to it (transaction_index = i); a candidate for which
\* the oracle gave no correlated verdict is never chosen as the merge winner.
ClaimC31 ==
    call.op = "findBestMatch" =>
        /\ \A i \in 1..Len(call.potentialMatches) :
              \A j \in AddressedTo(call.response, i) :
                  call.correlations[i].is_correlated
                      = call.response.correlations[j].is_correlated
        /\ IsActionable(call.result) =>
              \E j \in AddressedTo(call.response, call.result.index) :
                  call.response.correlations[j].is_correlated

WellFormed(correlation) ==
    /\ correlation.is_correlated \in BOOLEAN
    /\ correlation.confidence \in 0..100
    /\ correlation.correlation_type
          \in {"duplicate", "same_purchase", "related", "unrelated"}
    /\ correlation.recommended_action \in {"merge", "flag_for_review", "keep_separate"}

\* C32 (as claimed): whatever the oracle wrote, every verdict the parser hands to
\* the decision has a boolean is_correlated, a confidence in 0..100, a known
\* correlation_type and a known recommended_action; a confidence out of range
\* never makes the decision actionable.
ClaimC32 ==
    call.op = "parseMultipleCorrelationResponse" =>
        /\ \A i \in 1..Len(call.result) : WellFormed(call.result[i])
        /\ IsActionable(call.best) => call.best.confidence \in 0..100

\* C35: on positive amounts isAmountMatch is symmetric and reflexive:
\* isAmountMatch(a, b) = isAmountMatch(b, a), and isAmountMatch(a, a) holds.
ThmC35 ==
    (/\ call.op = "isAmountMatch"
     /\ call.amount1 > 0
     /\ call.amount2 > 0) =>
        /\ call.result = call.reversed
        /\ call.amount1 = call.amount2 => call.result

\* Both orders of a pair at the edge of the tolerance, and a pair of equal
\* amounts, have been evaluated.
WitC35 ==
    /\ call.op = "isAmountMatch"
    /\ call.amount1 = 1000
    /\ call.amount2 = 1052
    /\ call.result
    /\ call.reversed

----------------------------------------------------------------------------
(* Properties of the background correlation of a stored transaction (Spec) *)

\* C36: a stored transaction is never correlated with itself: the candidates of
\* its background correlation never hold the record with its own id, and the
\* winner of its merge is never its own record.
ThmC36 ==
    \A p \in Procs :
        txn[p].id # NoId =>
            /\ \A i \in 1..Len(cands[p]) : cands[p][i].id # txn[p].id
            /\ merge[p].winner # txn[p].id

\* A background correlation whose own record is stored and active has found
\* candidates and is about to update its winner.
WitC36 ==
    \E p \in Procs :
        /\ txn[p].id # NoId
        /\ pc[p] = "update"
        /\ Exists(store, txn[p].id)
        /\ store[txn[p].id].status = "active"
        /\ Exists(store, merge[p].winner)

\* The background merge of p has written its winner and then failed to delete
\* its own stored record.
DeleteFailedAfterUpdate(p) ==
    /\ failed[p] = "delete"
    /\ txn[p].id # NoId
    /\ pc[p] = "done"

\* C33 (as claimed): when a merge has updated its winner and the delete of the
\* stored duplicate has failed, the duplicate record is eventually removed
\* (the store accepts every write after the failed one).
ClaimC33 ==
    (\E p \in Procs : DeleteFailedAfterUpdate(p))
        ~> (\A p \in Procs : DeleteFailedAfterUpdate(p) => ~Exists(store, txn[p].id))

\* The transaction of invocation p has been folded into a winner: its
\* mergeTransactions call has written the winner update.
Folded(p) ==
    \/ pc[p] = "delete"
    \/ /\ pc[p] = "done"
       /\ corr[p].action = "merged" \/ failed[p] = "delete"

\* C34: a transaction is consumed as a duplicate at most once: the winner update
\* is written only by a transaction that has not been folded yet, and once it
\* has been folded into a winner it makes no further correlation attempt and no
\* further winner update, whatever fails afterwards.
ThmC34 ==
    [][\A p \in Procs :
          /\ (pc[p] = "update" /\ store' # store /\ pc'[p] # "update")
                => (~Folded(p) /\ Folded(p)')
          /\ Folded(p) =>
                /\ Folded(p)'
                /\ pc'[p] \in {"delete", "done"}
                /\ pc'[p] # pc[p] =>
                      \A w \in DOMAIN store \cap DOMAIN store' :
                          store'[w] = store[w]]_vars

\* A stored transaction was folded into its winner at its second correlation
\* attempt (the one after its creation), the delete of its record failed, and
\* the invocation has ended.
WitC34 ==
    \E p \in Procs :
        /\ Folded(p)
        /\ pc[p] = "done"
        /\ failed[p] = "delete"
        /\ Exists(store, txn[p].id)
        /\ \E w \in DOMAIN store :
              /\ w # txn[p].id
              /\ store[w].correlation_info.merged_transaction_id = txn[p].id

====
